---- MODULE Spec2Model ----
(***************************************************************************)
(* The training / evaluation / checkpoint loop of main.py (CIFAR10         *)
(* training script) as a state machine.                                    *)
(*                                                                         *)
(* The state is the save directory (args.save) with the files the script   *)
(* reads and writes, plus the memory of the one running process: its       *)
(* module-level globals (best_acc, start_epoch, net, optimizer), the loop  *)
(* variable epoch and the position pc of the script.  A process can be     *)
(* terminated from outside at any point (Kill) and the script can be       *)
(* launched again on the same directory (Start), with or without --resume. *)
(*                                                                         *)
(* The network, the data loaders and the optimizer are external: the       *)
(* parameter set of the network is abstracted to a number in               *)
(* 0 .. NetMod-1, the SGD momentum buffers to a flag (0 = empty,           *)
(* 1 = populated); one training pass is a deterministic function of both   *)
(* and the test accuracy a function of the parameters.  Losses and wall    *)
(* clock times of the log rows are left out.                               *)
(***************************************************************************)
EXTENDS Integers, Sequences, FiniteSets, TLC

\* ------------------------------------------------------------- bounds
MaxSeed == 1
NetMod == 7
MaxKillEpoch == 5
MaxInvocations == 2

\* ------------------------------------------------- program constants
NumEpochs == 200
RotationPeriod == 10

VARIABLES
  \* the save directory
  dirExists,      \* os.path.isdir(args.save)
  ckptFile,       \* checkpoint.pth.tar      (<<>> = no such file, <<c>> = content c)
  bestFile,       \* model_best.pth.tar
  snapFiles,      \* checkpoint_<e>.pth.tar, a function from the e that exist
  logFile,        \* train_log.csv           (<<>> = no such file, <<lines>>)
  modelPth,       \* model.pth
  weightsPth,     \* weights.pth
  resumeFile,     \* checkpoint.pth, the file the resume block loads
  \* the process
  pc,             \* position of the script
  resume,         \* args.resume
  best_acc,
  start_epoch,
  net,            \* parameters of net
  optimizer,      \* momentum state of optimizer
  iter,           \* next value of range(start_epoch, start_epoch+200)
  epoch,          \* loop variable
  train_epoch_log,
  test_epoch_log,
  warnings,       \* WARNING lines printed by the latest test() call
  \* environment
  seed,           \* fixes the model initialisation and the batch order
  invocations,    \* launches of the script so far
  \* history (read by the properties only)
  hIsBest,        \* is_best of the latest test() call
  hOldBest,       \* best_acc before the latest test() call
  hWritten,       \* checkpoint.pth.tar as written at the latest is_best epoch
  hSnaps,         \* checkpoint.pth.tar as written at each epoch of this run
  hObsMax,        \* max accuracy observed since the last launch without --resume
  hObsCount,      \* test passes since the last launch without --resume
  hChain,         \* some launch was without --resume
  hPrev,          \* the latest killed process: launched without --resume,
                  \* rows logged, no checkpoint newer than its last row
  nTrain, nTest, nLog  \* train / test / log-append steps of this process

fsVars == <<dirExists, ckptFile, bestFile, snapFiles, logFile, modelPth,
            weightsPth, resumeFile>>
procVars == <<pc, resume, best_acc, start_epoch, net, optimizer, iter, epoch,
              train_epoch_log, test_epoch_log, warnings>>
histVars == <<hIsBest, hOldBest, hWritten, hSnaps, hObsMax, hObsCount, hChain, hPrev,
              nTrain, nTest, nLog>>
vars == <<fsVars, procVars, seed, invocations, histVars>>

\* ------------------------------------------------------------ helpers
Max(a, b) == IF a > b THEN a ELSE b

NoFile == <<>>

File(content) == <<content>>

Exists(f) == f # NoFile

Content(f) == f[1]

Arch == "MobileNetV2"

HeaderRow == [kind |-> "header", cols |-> <<>>]

DataRow(e, tr, te) == [kind |-> "row", cols |-> <<e, tr, te>>]

\* --------------------------------------------- external collaborators
\* net = locals()[args.arch](): the freshly constructed network
InitNet(s) == (NetMod - 1 + s) % NetMod

\* accuracy (percent) the network with parameters n reaches on a data split
AccOf(n) == (13 * n * n + 7 * n) % 101

\* one pass of train(): every optimizer.step() moves the parameters; SGD with
\* momentum moves them further once its buffers are populated
TrainNet(n, o) == (n + 1 + o) % NetMod

TrainOpt(o) == 1

\* a checkpoint.pth left in the save directory by other tooling
ForeignCkpts == {[net |-> 2, acc |-> 50, epoch |-> 3]}

\* ------------------------------------------------------ the script
\* names bound at module level when test() runs: the script's own globals
\* and functions; the network is bound to net, and nothing binds model
GlobalNames == {"args", "device", "best_acc", "start_epoch", "net", "model_dir",
                "criterion", "optimizer", "train", "test", "save_checkpoint"}

\* variant: a tie with the best accuracy counts as a new best
is_best_nonstrict(acc, best) == acc >= best

\* acc > best_acc
is_best(acc, best) == acc > best

\* best_acc = max(acc, best_acc)
new_best(acc, best) == Max(acc, best)

\* variant: the handler is narrowed to I/O errors, so the NameError escapes
TryExport_uncaught(old, name, payload) ==
  IF name \in GlobalNames
    THEN [file |-> File(payload), warned |-> 0, raised |-> FALSE]
    ELSE [file |-> old, warned |-> 0, raised |-> TRUE]

\* try: torch.save(<name>..., path)  except: print("WARNING: ...")
\* evaluating an unbound name raises NameError inside the try; the bare except
\* catches it, so nothing is raised to the caller
TryExport(old, name, payload) ==
  IF name \in GlobalNames
    THEN [file |-> File(payload), warned |-> 0, raised |-> FALSE]
    ELSE [file |-> old, warned |-> 1, raised |-> FALSE]

\* the export is not attempted (is_best is false, or an exception is under way)
NoExport(old) == [file |-> old, warned |-> 0, raised |-> FALSE]

\* variant: the epoch just completed is stored instead of the next one
CheckpointState_current(e, n, best, o) ==
  [epoch |-> e, arch |-> Arch, state_dict |-> n, best_acc1 |-> best,
   optimizer |-> o]

\* the dict test() hands to save_checkpoint
CheckpointState(e, n, best, o) ==
  [epoch |-> e + 1, arch |-> Arch, state_dict |-> n, best_acc1 |-> best,
   optimizer |-> o]

\* variant: the rotation test and the snapshot name use the stored epoch field
save_checkpoint_stored(state, isb, oldBest, oldSnaps) ==
  LET written == File(state)
  IN [ckpt  |-> written,
      best  |-> IF isb THEN written ELSE oldBest,
      snaps |-> IF state.epoch % RotationPeriod = 0
                  THEN (state.epoch :> written) @@ oldSnaps
                  ELSE oldSnaps]

\* save_checkpoint(state, is_best, dir_path): the three files it may write
save_checkpoint(state, isb, oldBest, oldSnaps) ==
  LET written == File(state)
  IN [ckpt  |-> written,
      best  |-> IF isb THEN written ELSE oldBest,
      snaps |-> IF (state.epoch - 1) % RotationPeriod = 0
                  THEN ((state.epoch - 1) :> written) @@ oldSnaps
                  ELSE oldSnaps]

\* variant: the range runs one epoch too far
LoopHasNext_inclusive(i, s) == i <= s + NumEpochs

\* range(start_epoch, start_epoch+200) has a next value
LoopHasNext(i, s) == i < s + NumEpochs

\* with open(..., "w"): writerow(header)
CreatedLog == File(<<HeaderRow>>)

\* variant: the row is written with mode "w", which truncates the file
AppendedLog_truncating(f, row) == File(<<row>>)

\* with open(..., "a"): writerow(row)
AppendedLog(f, row) == File(Append(Content(f), row))

Running == {"resume", "mklog", "loop", "train", "test", "log"}

Init ==
  /\ dirExists \in BOOLEAN
  /\ ckptFile = NoFile
  /\ bestFile = NoFile
  /\ snapFiles = <<>>
  /\ logFile = NoFile
  /\ modelPth = NoFile
  /\ weightsPth = NoFile
  /\ resumeFile \in {NoFile} \cup (IF dirExists THEN {File(c) : c \in ForeignCkpts} ELSE {})
  /\ pc = "idle"
  /\ resume = FALSE
  /\ best_acc = 0
  /\ start_epoch = 0
  /\ net = 0
  /\ optimizer = 0
  /\ iter = 0
  /\ epoch = 0
  /\ train_epoch_log = 0
  /\ test_epoch_log = 0
  /\ warnings = 0
  /\ seed \in 0..MaxSeed
  /\ invocations = 0
  /\ hIsBest = FALSE
  /\ hOldBest = 0
  /\ hWritten = NoFile
  /\ hSnaps = <<>>
  /\ hObsMax = 0
  /\ hObsCount = 0
  /\ hChain = FALSE
  /\ hPrev = [fresh |-> FALSE, logged |-> 0, clean |-> FALSE]
  /\ nTrain = 0 /\ nTest = 0 /\ nLog = 0

\* python main.py [--resume]: lines 21-73, up to the constructed network
Start ==
  /\ pc \in {"idle", "killed", "crashed", "done"}
  /\ invocations < MaxInvocations
  /\ \E r \in BOOLEAN :
       /\ resume' = r
       /\ hObsMax' = IF r THEN hObsMax ELSE 0
       /\ hObsCount' = IF r THEN hObsCount ELSE 0
       /\ hChain' = (hChain \/ ~r)
  /\ invocations' = invocations + 1
  /\ best_acc' = 0
  /\ start_epoch' = 0
  /\ net' = InitNet(seed)
  /\ optimizer' = 0
  /\ iter' = 0
  /\ epoch' = 0
  /\ train_epoch_log' = 0
  /\ test_epoch_log' = 0
  /\ warnings' = 0
  /\ hIsBest' = FALSE
  /\ hOldBest' = 0
  /\ hSnaps' = <<>>
  /\ nTrain' = 0 /\ nTest' = 0 /\ nLog' = 0
  /\ pc' = "resume"
  /\ hPrev' = IF pc = "killed" THEN hPrev
                             ELSE [fresh |-> FALSE, logged |-> 0, clean |-> FALSE]
  /\ UNCHANGED <<fsVars, seed, hWritten>>

\* lines 75-87: the resume block, then the (fresh) optimizer
ResumeBlock ==
  /\ pc = "resume"
  /\ IF resume
       THEN IF dirExists /\ Exists(resumeFile)
              THEN /\ net' = Content(resumeFile).net
                   /\ best_acc' = Content(resumeFile).acc
                   /\ start_epoch' = Content(resumeFile).epoch
                   /\ pc' = "mklog"
              ELSE \* AssertionError (no directory) or FileNotFoundError
                   /\ pc' = "crashed"
                   /\ UNCHANGED <<net, best_acc, start_epoch>>
       ELSE /\ pc' = "mklog"
            /\ UNCHANGED <<net, best_acc, start_epoch>>
  /\ optimizer' = 0
  /\ UNCHANGED <<fsVars, resume, iter, epoch, train_epoch_log, test_epoch_log,
                 warnings, seed, invocations, histVars>>

\* lines 186-195: create the directory and the log file with its header
CreateLog ==
  /\ pc = "mklog"
  /\ dirExists' = TRUE
  /\ logFile' = CreatedLog
  /\ iter' = start_epoch
  /\ pc' = "loop"
  /\ UNCHANGED <<ckptFile, bestFile, snapFiles, modelPth, weightsPth, resumeFile,
                 resume, best_acc, start_epoch, net, optimizer, epoch,
                 train_epoch_log, test_epoch_log, warnings, seed, invocations,
                 histVars>>

\* line 196: for epoch in range(start_epoch, start_epoch+200)
LoopHead ==
  /\ pc = "loop"
  /\ IF LoopHasNext(iter, start_epoch)
       THEN /\ epoch' = iter
            /\ iter' = iter + 1
            /\ pc' = "train"
       ELSE /\ pc' = "done"
            /\ UNCHANGED <<epoch, iter>>
  /\ UNCHANGED <<fsVars, resume, best_acc, start_epoch, net, optimizer,
                 train_epoch_log, test_epoch_log, warnings, seed, invocations,
                 histVars>>

\* line 197: train_epoch_log = train(epoch)
Train ==
  /\ pc = "train"
  /\ net' = TrainNet(net, optimizer)
  /\ optimizer' = TrainOpt(optimizer)
  /\ train_epoch_log' = AccOf(net)
  /\ nTrain' = nTrain + 1
  /\ pc' = "test"
  /\ UNCHANGED <<fsVars, resume, best_acc, start_epoch, iter, epoch,
                 test_epoch_log, warnings, seed, invocations, hIsBest, hOldBest,
                 hWritten, hSnaps, hObsMax, hObsCount, hChain, hPrev, nTest, nLog>>

\* line 198: test_epoch_log = test(epoch), with the save_checkpoint it calls
Test ==
  /\ pc = "test"
  /\ LET acc == AccOf(net)
         isb == is_best(acc, best_acc)
         nb  == new_best(acc, best_acc)
         ex1 == IF isb THEN TryExport(modelPth, "model", [arch |-> Arch, params |-> net])
                       ELSE NoExport(modelPth)
         ex2 == IF isb /\ ~ex1.raised THEN TryExport(weightsPth, "model", net)
                                      ELSE NoExport(weightsPth)
         raised == ex1.raised \/ ex2.raised
         fs  == IF raised
                  THEN [ckpt |-> ckptFile, best |-> bestFile, snaps |-> snapFiles]
                  ELSE save_checkpoint(CheckpointState(epoch, net, nb, optimizer),
                                       isb, bestFile, snapFiles)
     IN /\ best_acc' = nb
        /\ modelPth' = ex1.file
        /\ weightsPth' = ex2.file
        /\ warnings' = ex1.warned + ex2.warned
        /\ ckptFile' = fs.ckpt
        /\ bestFile' = fs.best
        /\ snapFiles' = fs.snaps
        /\ test_epoch_log' = IF raised THEN test_epoch_log ELSE acc
        /\ nTest' = IF raised THEN nTest ELSE nTest + 1
        /\ pc' = IF raised THEN "crashed" ELSE "log"
        /\ hIsBest' = (acc > best_acc)
        /\ hOldBest' = best_acc
        /\ hWritten' = IF acc > best_acc /\ ~raised THEN fs.ckpt ELSE hWritten
        /\ hSnaps' = IF epoch % 10 = 0 /\ ~raised
                       THEN (epoch :> fs.ckpt) @@ hSnaps ELSE hSnaps
        /\ hObsMax' = Max(hObsMax, acc)
        /\ hObsCount' = hObsCount + 1
  /\ UNCHANGED <<dirExists, logFile, resumeFile, resume, start_epoch, net,
                 optimizer, iter, epoch, train_epoch_log, seed, invocations,
                 hChain, hPrev, nTrain, nLog>>

\* lines 200-203: append the epoch's row to the log
LogAppend ==
  /\ pc = "log"
  /\ logFile' = AppendedLog(logFile, DataRow(epoch, train_epoch_log, test_epoch_log))
  /\ nLog' = nLog + 1
  /\ pc' = "loop"
  /\ UNCHANGED <<dirExists, ckptFile, bestFile, snapFiles, modelPth, weightsPth,
                 resumeFile, resume, best_acc, start_epoch, net, optimizer, iter,
                 epoch, train_epoch_log, test_epoch_log, warnings, seed,
                 invocations, hIsBest, hOldBest, hWritten, hSnaps, hObsMax,
                 hObsCount, hChain, hPrev, nTrain, nTest>>

\* the process is terminated from outside; the files stay as they are
Kill ==
  /\ pc \in Running
  /\ nLog <= MaxKillEpoch
  /\ pc' = "killed"
  /\ hPrev' = [fresh |-> ~resume, logged |-> nLog, clean |-> (nTest = nLog)]
  /\ UNCHANGED <<fsVars, resume, best_acc, start_epoch, net, optimizer, iter,
                 epoch, train_epoch_log, test_epoch_log, warnings, seed,
                 invocations, hIsBest, hOldBest, hWritten, hSnaps, hObsMax,
                 hObsCount, hChain, nTrain, nTest, nLog>>

Next ==
  \/ Start
  \/ ResumeBlock
  \/ CreateLog
  \/ LoopHead
  \/ Train
  \/ Test
  \/ LogAppend
  \/ Kill

Spec == Init /\ [][Next]_vars

\* --------------------------------------------------------- properties
\* the process is past its start-up and has not been terminated
Live == pc \in {"mklog", "loop", "train", "test", "log", "done"}

\* the loop has been entered
InLoop == pc \in {"loop", "train", "test", "log", "done"}

\* an uninterrupted run from scratch, after n epochs
RECURSIVE FreshRun(_, _)
FreshRun(s, n) ==
  IF n = 0
    THEN [net |-> InitNet(s), opt |-> 0, best |-> 0]
    ELSE LET p == FreshRun(s, n - 1)
             t == TrainNet(p.net, p.opt)
         IN [net |-> t, opt |-> TrainOpt(p.opt), best |-> new_best(AccOf(t), p.best)]

\* C1: best_acc is the maximum of all test accuracies observed so far, also in
\* a process launched with --resume after an earlier run that tested at least
\* one epoch on the directory, where the restored value is the maximum observed
\* before the interruption.
C1_BestIsMaxAcrossResume ==
  (/\ hObsCount >= 1
   /\ resume => (hChain /\ hObsCount > nTest)
   /\ Live \/ pc = "crashed")
    => (pc # "crashed" /\ best_acc = hObsMax)

\* C2: a run launched without --resume and stopped after 5 completed epochs,
\* then a launch with --resume on the same directory, continues at epoch 5 and
\* has, up to epoch 9, the best accuracy of the uninterrupted run.
C2_ResumeIdempotent ==
  (resume /\ hPrev.fresh /\ hPrev.clean /\ hPrev.logged = 5
     /\ (Live \/ pc = "crashed"))
    => /\ pc # "crashed"
       /\ start_epoch = 5
       /\ (start_epoch + nTest <= 10
             => best_acc = FreshRun(seed, start_epoch + nTest).best)

\* C3: with --resume and a checkpoint.pth.tar in the directory, the resume
\* block restores start_epoch, best_acc and the parameters from its fields
\* epoch, best_acc1 and state_dict.
C3_ResumeRoundTrip ==
  (resume /\ Exists(ckptFile) /\ pc \in {"mklog", "crashed"})
    => /\ pc = "mklog"
       /\ start_epoch = Content(ckptFile).epoch
       /\ best_acc = Content(ckptFile).best_acc1
       /\ net = Content(ckptFile).state_dict

\* C4: checkpoint_<e>.pth.tar exists only for e a multiple of 10; for every
\* epoch e of this run that has been tested and is a multiple of 10 it exists,
\* and it still is the checkpoint.pth.tar written at that epoch (record for
\* epoch e+1), whatever later epochs did.
C4_Rotation ==
  /\ \A e \in DOMAIN snapFiles : e % 10 = 0
  /\ InLoop =>
       \A e \in start_epoch .. (start_epoch + nTest - 1) :
         e % 10 = 0 =>
           /\ e \in DOMAIN snapFiles
           /\ e \in DOMAIN hSnaps
           /\ snapFiles[e] = hSnaps[e]
           /\ Content(snapFiles[e]).epoch = e + 1

C4_Witness ==
  /\ pc = "log"
  /\ start_epoch = 0
  /\ epoch = 29
  /\ DOMAIN snapFiles = {0, 10, 20}
  /\ snapFiles[0] # ckptFile

\* C5: model_best.pth.tar exists iff some epoch was a best epoch, and then it
\* is the checkpoint.pth.tar written at the latest epoch whose accuracy was
\* strictly greater than best_acc; right after a best epoch the two files agree.
C5_BestPromotion ==
  /\ bestFile = hWritten
  /\ (pc = "log" /\ hIsBest) => bestFile = ckptFile

C5_Witness ==
  /\ pc = "log"
  /\ ~hIsBest
  /\ test_epoch_log = hOldBest
  /\ Exists(bestFile)
  /\ bestFile # ckptFile

\* C6: once an epoch has been tested, checkpoint.pth.tar holds the record of
\* the latest tested epoch: its epoch field is that epoch + 1, its best_acc1
\* is best_acc, which is the maximum of the former best and the epoch's
\* accuracy, and its state_dict is the parameters.
C6_RollingCheckpoint ==
  /\ (InLoop /\ nTest >= 1) =>
       /\ Exists(ckptFile)
       /\ Content(ckptFile).epoch = start_epoch + nTest
       /\ Content(ckptFile).best_acc1 = best_acc
  /\ pc = "log" =>
       /\ Content(ckptFile).epoch = epoch + 1
       /\ Content(ckptFile).state_dict = net
       /\ best_acc >= hOldBest
       /\ best_acc >= test_epoch_log
       /\ best_acc \in {hOldBest, test_epoch_log}

C6_Witness ==
  /\ pc = "log"
  /\ ~hIsBest
  /\ epoch % 10 # 0
  /\ nTest >= 2
  /\ Content(ckptFile).epoch = epoch + 1

\* C7: a failed export of model.pth or weights.pth is not fatal: the process
\* never crashes inside the loop, and after a best epoch whose export failed a
\* warning was printed, best_acc is the epoch's accuracy, checkpoint.pth.tar
\* holds epoch + 1 and best_acc, model_best.pth.tar is that checkpoint, and the
\* script is at the log row.
C7_ExportFailureNotFatal ==
  /\ pc = "crashed" => (nTrain = 0 /\ resume)
  /\ (hIsBest /\ nTest > nLog /\ (~Exists(modelPth) \/ ~Exists(weightsPth))) =>
       /\ pc \in {"log", "killed"}
       /\ warnings >= 1
       /\ best_acc = test_epoch_log
       /\ best_acc > hOldBest
       /\ Content(ckptFile).epoch = epoch + 1
       /\ Content(ckptFile).best_acc1 = best_acc
       /\ bestFile = ckptFile

C7_Witness ==
  /\ pc = "loop"
  /\ nLog >= 3
  /\ warnings = 2
  /\ hIsBest
  /\ ~Exists(modelPth)
  /\ bestFile = ckptFile

\* C8: the loop runs the epochs start_epoch, start_epoch+1, ... in order, each
\* once: when epoch start_epoch+k is trained, exactly k epochs have been
\* trained, tested and logged; within an epoch the order is train, test with
\* its checkpoint, log row; at the end 200 epochs have gone through all three.
C8_RunLoopOrder ==
  LET k == epoch - start_epoch
  IN /\ pc \in {"train", "test", "log"} => (0 <= k /\ k < 200 /\ iter = epoch + 1)
     /\ pc = "train" => (nTrain = k /\ nTest = k /\ nLog = k)
     /\ pc = "test" => (nTrain = k + 1 /\ nTest = k /\ nLog = k)
     /\ pc = "log" => /\ nTrain = k + 1 /\ nTest = k + 1 /\ nLog = k
                      /\ Content(ckptFile).epoch = epoch + 1
                      /\ Len(Content(logFile)) = k + 1
     /\ pc = "loop" => /\ nTrain = nLog /\ nTest = nLog
                       /\ nLog = iter - start_epoch
                       /\ nLog >= 1 => epoch = iter - 1
     /\ pc = "done" => /\ nTrain = 200 /\ nTest = 200 /\ nLog = 200
                       /\ epoch = start_epoch + 199

C8_Witness ==
  /\ pc = "done"
  /\ resume
  /\ start_epoch = 3
  /\ epoch = 202

\* the log is the header followed by one row per logged epoch, in epoch order
LogShape ==
  InLoop =>
    /\ Exists(logFile)
    /\ LET L == Content(logFile)
       IN /\ Len(L) = 1 + nLog
          /\ L[1] = HeaderRow
          /\ \A i \in 2 .. Len(L) :
               /\ L[i].kind = "row"
               /\ L[i].cols[1] = start_epoch + i - 2

\* a step of the running loop keeps every line the log already has
LogStable ==
  (InLoop /\ pc # "done") =>
    /\ Exists(logFile')
    /\ Len(Content(logFile')) >= Len(Content(logFile))
    /\ SubSeq(Content(logFile'), 1, Len(Content(logFile))) = Content(logFile)

\* C9: from the creation of the log on, train_log.csv is the header, written
\* once, followed by exactly one row per completed epoch in epoch order from
\* start_epoch, and no step of the run changes or removes a line written.
C9_LogFile == []LogShape /\ [][LogStable]_vars

C9_Witness ==
  /\ pc = "loop"
  /\ resume
  /\ invocations = 2
  /\ nLog = 4
  /\ Content(logFile)[5].cols[1] = 6

\* C10: after a best epoch model.pth holds the network and weights.pth its
\* parameters as of that epoch.
C10_BestExport ==
  (pc = "log" /\ hIsBest) =>
    /\ Exists(modelPth)
    /\ Content(modelPth) = [arch |-> Arch, params |-> net]
    /\ Exists(weightsPth)
    /\ Content(weightsPth) = net

====
